---------------------------- MODULE Spec2Model ----------------------------
(***************************************************************************)
(* State-machine model of src/main.rs: a single-threaded GLFW/OpenGL       *)
(* program.  main() creates a window, builds a two-stage shader program,   *)
(* uploads one triangle and then runs the render loop until the window's   *)
(* should-close flag is set.                                               *)
(*                                                                         *)
(* The program is sequential, so `pc` is the position of the one thread.   *)
(* What the windowing library, the GL driver and stdout answer is chosen   *)
(* nondeterministically at the call that asks.                             *)
(***************************************************************************)
EXTENDS Integers, Sequences, FiniteSets, TLC

(***************************************************************************)
(* Bounds of the model.                                                    *)
(***************************************************************************)
\* Length of the info_log Vec: stands for the 512 - 1 of main.rs:159; the
\* buffer behind it has one more byte (the 512 of main.rs:158 and :165).
InfoLogLen == 3
\* Most events one poll_events call delivers.
MaxBatch == 2
\* Where the counter of draw calls issued after an Escape drain saturates.
MaxDrawsCounted == 2

(***************************************************************************)
(* Values.                                                                 *)
(***************************************************************************)
Stages == {"VERTEX", "FRAGMENT"}

\* WINDOW_RESOLUTION and a second framebuffer size a resize can report.
WINDOW_RESOLUTION == <<800, 600>>
Sizes == {<<800, 600>>, <<640, 480>>}

Keys == {"Escape", "A"}
KeyActions == {"Press", "Release", "Repeat"}

\* The two kinds of event the window is asked to report (main.rs:97-98).
Events ==
    {[type |-> "FramebufferSize", width |-> s[1], height |-> s[2]] : s \in Sizes}
    \cup [type : {"Key"}, key : Keys, action : KeyActions]

\* Bytes a log buffer may hold: NUL, 'A', and the two bytes of U+00E9,
\* each of which is ill-formed UTF-8 on its own.
Bytes == {0, 65, 195, 169}

\* GetUniformLocation's "not found" value, and one real location.
NotFound == -1
UniformLocations == {NotFound, 0}

\* Colour arithmetic is in thousandths: 1.0 is One, and FRAC_PI_2
\* (std::f32::consts, pi / 2 = 1.5707964) is rounded to the nearest.
One == 1000
FRAC_PI_2 == 1571

\* glfw.get_time() * 5.0, taken at the quarter turns of one full turn,
\* where cosine and sine reach their extremes and their zeros.
Times == 0 .. 3
Cos(time) == CASE time = 0 -> One  [] time = 1 -> 0  [] time = 2 -> -One  [] time = 3 -> 0
Sin(time) == CASE time = 0 -> 0  [] time = 1 -> One  [] time = 2 -> 0  [] time = 3 -> -One

VARIABLES
    pc,                     \* position of the thread in main and its callees
    outcome,                \* "running", "exit0" (main returned) or "abort" (panic)
    diag,                   \* what the panic printed
    glfw,                   \* the windowing library and the window
    eventQueue,             \* the Receiver: events delivered and not yet read
    shouldClose,            \* the window's should-close flag
    viewport,               \* GL viewport <<x, y, width, height>>
    shaders,                \* GL shader objects, by name
    programs,               \* GL program objects, by name
    vaos,                   \* GL vertex array objects, by name
    buffers,                \* GL buffer objects, by name
    bound,                  \* GL bind state: current program, vertex array, array buffer
    albedoLocation,         \* where the linked program holds uniform "albedo"
    vertex_shader,          \* locals of compiler_shader
    frag_shader,
    program_local,          \* compiler_shader's local shader_program
    success,                \* local of compile_shader_with_debug / check_linking_errors
    info_log,               \* local of the same two functions
    vbo_local,              \* locals of setup_vertex_data
    vao_local,
    shader_program,         \* locals of main
    vao,
    vertex_color_location,
    red_value,
    green_value,
    blue_value,
    calls,                  \* history: library and GL calls made before the loop
    iterOps,                \* history: calls made by the current loop iteration
    lastResize,             \* history: the last resize event delivered, or <<>>
    escDrained,             \* history: an Escape press was handled by a drain
    drawsAfterEsc,          \* history: DrawArrays calls issued since then
    closeRequested,         \* history: the window reported a close request
    flushFailed             \* history: a flush of stdout returned an error

ctlVars == <<pc, outcome, diag>>
winVars == <<glfw, eventQueue, shouldClose>>
glVars == <<viewport, shaders, programs, vaos, buffers, bound, albedoLocation>>
buildVars == <<vertex_shader, frag_shader, program_local, success, info_log>>
meshVars == <<vbo_local, vao_local>>
mainVars == <<shader_program, vao, vertex_color_location, red_value, green_value, blue_value>>
colorVars == <<red_value, green_value, blue_value>>
histVars == <<calls, iterOps, lastResize, escDrained, drawsAfterEsc, closeRequested, flushFailed>>

vars == <<ctlVars, winVars, glVars, buildVars, meshVars, mainVars, histVars>>

(***************************************************************************)
(* Helpers.                                                                *)
(***************************************************************************)
Min(a, b) == IF a <= b THEN a ELSE b

NoDiag == [kind |-> "none", stage |-> "none", log |-> <<>>]

\* The thread moves on to position p.
Goto(p) == pc' = p /\ UNCHANGED <<outcome, diag>>

\* panic!/unwrap/expect: the process aborts with a message.
Panic(kind, stage, log) ==
    /\ pc' = "aborted"
    /\ outcome' = "abort"
    /\ diag' = [kind |-> kind, stage |-> stage, log |-> log]

\* A setup-phase call is recorded.
Called(c) ==
    /\ calls' = Append(calls, c)
    /\ UNCHANGED <<iterOps, lastResize, escDrained, drawsAfterEsc, closeRequested, flushFailed>>

\* A call of the current loop iteration is recorded.
Did(op) ==
    /\ iterOps' = Append(iterOps, op)
    /\ UNCHANGED <<calls, lastResize, escDrained, drawsAfterEsc, closeRequested, flushFailed>>

\* glGen*/glCreate*: the smallest name not in use (0 is never a name).
NewName(used) == CHOOSE n \in 1..(Cardinality(used) + 1) : n \notin used

Init ==
    /\ pc = "glfw_init"
    /\ outcome = "running"
    /\ diag = NoDiag
    /\ glfw = [initialized |-> FALSE, window |-> FALSE, contextCurrent |-> FALSE,
               keyPolling |-> FALSE, framebufferSizePolling |-> FALSE,
               swapInterval |-> 0, glLoaded |-> FALSE]
    /\ eventQueue = <<>>
    /\ shouldClose = FALSE
    /\ viewport = <<0, 0, 0, 0>>
    /\ shaders = <<>>
    /\ programs = <<>>
    /\ vaos = <<>>
    /\ buffers = <<>>
    /\ bound = [program |-> 0, vertexArray |-> 0, arrayBuffer |-> 0]
    /\ albedoLocation = NotFound
    /\ vertex_shader = 0
    /\ frag_shader = 0
    /\ program_local = 0
    /\ success = FALSE
    /\ info_log = <<>>
    /\ vbo_local = 0
    /\ vao_local = 0
    /\ shader_program = 0
    /\ vao = 0
    /\ vertex_color_location = NotFound
    /\ red_value = 0
    /\ green_value = 0
    /\ blue_value = 0
    /\ calls = <<>>
    /\ iterOps = <<>>
    /\ lastResize = <<>>
    /\ escDrained = FALSE
    /\ drawsAfterEsc = 0
    /\ closeRequested = FALSE
    /\ flushFailed = FALSE

(***************************************************************************)
(* init_and_create_glfw_window (main.rs:70-107).                           *)
(***************************************************************************)
\* main.rs:72  glfw::init(..).unwrap()
GlfwInit ==
    /\ pc = "glfw_init"
    /\ \E ok \in BOOLEAN :
        IF ok
        THEN /\ glfw' = [glfw EXCEPT !.initialized = TRUE]
             /\ Goto("create_window")
        ELSE /\ Panic("GlfwInit", "none", <<>>)
             /\ UNCHANGED glfw
    /\ Called(<<"glfw::init">>)
    /\ UNCHANGED <<eventQueue, shouldClose, glVars, buildVars, meshVars, mainVars>>

\* CreateWindow without the expect: a failed creation is not noticed.
CreateWindowUnchecked ==
    /\ pc = "create_window"
    /\ \E ok \in BOOLEAN : glfw' = [glfw EXCEPT !.window = ok]
    /\ Goto("make_current")
    /\ Called(<<"create_window">>)
    /\ UNCHANGED <<eventQueue, shouldClose, glVars, buildVars, meshVars, mainVars>>

\* main.rs:75-94  window hints, then create_window(..).expect(..)
CreateWindow ==
    /\ pc = "create_window"
    /\ \E ok \in BOOLEAN :
        IF ok
        THEN /\ glfw' = [glfw EXCEPT !.window = TRUE]
             /\ Goto("make_current")
        ELSE /\ Panic("CreateWindow", "none", <<>>)
             /\ UNCHANGED glfw
    /\ Called(<<"create_window">>)
    /\ UNCHANGED <<eventQueue, shouldClose, glVars, buildVars, meshVars, mainVars>>

\* main.rs:96  window.make_current(); the context's viewport starts as the
\* window's size.
MakeCurrent ==
    /\ pc = "make_current"
    /\ glfw' = [glfw EXCEPT !.contextCurrent = TRUE]
    /\ viewport' = <<0, 0, WINDOW_RESOLUTION[1], WINDOW_RESOLUTION[2]>>
    /\ Goto("set_polling")
    /\ Called(<<"make_current">>)
    /\ UNCHANGED <<eventQueue, shouldClose, shaders, programs, vaos, buffers, bound,
                   albedoLocation, buildVars, meshVars, mainVars>>

\* main.rs:97-101  key and framebuffer-size polling, swap interval 1
SetPolling ==
    /\ pc = "set_polling"
    /\ glfw' = [glfw EXCEPT !.keyPolling = TRUE, !.framebufferSizePolling = TRUE,
                            !.swapInterval = 1]
    /\ Goto("load_gl")
    /\ Called(<<"set_polling">>)
    /\ UNCHANGED <<eventQueue, shouldClose, glVars, buildVars, meshVars, mainVars>>

\* main.rs:104-106  gl::load_with(..), return to main
LoadGl ==
    /\ pc = "load_gl"
    /\ glfw' = [glfw EXCEPT !.glLoaded = TRUE]
    /\ Goto("create_shader_VERTEX")
    /\ Called(<<"gl::load_with">>)
    /\ UNCHANGED <<eventQueue, shouldClose, glVars, buildVars, meshVars, mainVars>>

(***************************************************************************)
(* compiler_shader (main.rs:123-150) and its two checks.                   *)
(***************************************************************************)
\* Names in use in the namespace shaders and programs share.
ObjectNames == DOMAIN shaders \cup DOMAIN programs

\* Where the thread is for each stage of compiler_shader.
CreatePc(stage) == IF stage = "VERTEX" THEN "create_shader_VERTEX" ELSE "create_shader_FRAGMENT"
CompilePc(stage) == IF stage = "VERTEX" THEN "compile_VERTEX" ELSE "compile_FRAGMENT"
CheckPc(stage) == IF stage = "VERTEX" THEN "check_compile_VERTEX" ELSE "check_compile_FRAGMENT"
AfterCompilePc(stage) == IF stage = "VERTEX" THEN "create_shader_FRAGMENT" ELSE "create_program"

\* The local that holds the stage's shader name.
ShaderLocal(stage) == IF stage = "VERTEX" THEN vertex_shader ELSE frag_shader

\* All sequences over S of length at most n.
SeqsUpTo(S, n) == UNION {[1..k -> S] : k \in 0..n}

\* std::str::from_utf8 succeeds exactly on well-formed UTF-8 (a NUL byte is
\* well formed).
RECURSIVE Utf8Valid(_)
Utf8Valid(s) ==
    IF s = <<>> THEN TRUE
    ELSE LET b == s[1]
             n == Len(s)
             Cont(i) == i <= n /\ s[i] \in 128..191
         IN  IF b < 128 THEN Utf8Valid(Tail(s))
             ELSE IF b \in 194..223
                  THEN Cont(2) /\ Utf8Valid(SubSeq(s, 3, n))
             ELSE IF b \in 224..239
                  THEN /\ Cont(2) /\ Cont(3)
                       /\ (b = 224 => s[2] >= 160)
                       /\ (b = 237 => s[2] <= 159)
                       /\ Utf8Valid(SubSeq(s, 4, n))
             ELSE IF b \in 240..244
                  THEN /\ Cont(2) /\ Cont(3) /\ Cont(4)
                       /\ (b = 240 => s[2] >= 144)
                       /\ (b = 244 => s[2] <= 143)
                       /\ Utf8Valid(SubSeq(s, 5, n))
             ELSE FALSE

\* glGetShaderInfoLog / glGetProgramInfoLog into a buffer of bufSize bytes of
\* which the Vec shows the first Len(buf): the driver copies as much of its
\* log as fits before a terminating NUL and leaves the other bytes as they
\* were.
GetInfoLog(buf, bufSize, text) ==
    LET n == Min(Len(text), bufSize - 1)
    IN  [i \in 1..Len(buf) |-> IF i <= n THEN text[i]
                               ELSE IF i = n + 1 THEN 0
                               ELSE buf[i]]

\* main.rs:158-159, 179-180  Vec::with_capacity(512) and set_len(512 - 1):
\* the bytes of the Vec are not initialised, so they hold anything.
UninitLogs == [1..InfoLogLen -> Bytes]

\* What a driver can have to say: any text without NUL, also one longer
\* than the buffer.
DriverLogs == SeqsUpTo(Bytes \ {0}, InfoLogLen + 1)

\* main.rs:169-173, 190-193  the panic message is formatted from
\* from_utf8(&info_log).unwrap(), which panics itself on ill-formed bytes.
PanicWithLog(kind, stage, log) ==
    IF Utf8Valid(log)
    THEN Panic(kind, stage, log)
    ELSE Panic("Utf8Error", "none", <<>>)

\* main.rs:125-127, 131-133  CreateShader and ShaderSource
CreateShader(stage) ==
    /\ pc = CreatePc(stage)
    /\ LET name == NewName(ObjectNames)
       IN  /\ shaders' = (name :> [type |-> stage, source |-> TRUE, compileStatus |-> FALSE,
                                   attached |-> FALSE, deleteFlag |-> FALSE]) @@ shaders
           /\ IF stage = "VERTEX"
              THEN vertex_shader' = name /\ UNCHANGED frag_shader
              ELSE frag_shader' = name /\ UNCHANGED vertex_shader
    /\ Goto(CompilePc(stage))
    /\ Called(<<"CreateShader", stage>>)
    /\ UNCHANGED <<winVars, viewport, programs, vaos, buffers, bound, albedoLocation,
                   program_local, success, info_log, meshVars, mainVars>>

\* main.rs:154-161  CompileShader, then GetShaderiv(COMPILE_STATUS) into
\* success; whether the source compiles is the driver's answer.
CompileShader(stage) ==
    /\ pc = CompilePc(stage)
    /\ \E ok \in BOOLEAN :
        /\ shaders' = [shaders EXCEPT ![ShaderLocal(stage)].compileStatus = ok]
        /\ success' = ok
    /\ Goto(CheckPc(stage))
    /\ Called(<<"CompileShader", stage>>)
    /\ UNCHANGED <<winVars, viewport, programs, vaos, buffers, bound, albedoLocation,
                   vertex_shader, frag_shader, program_local, info_log, meshVars, mainVars>>

\* CheckCompileStatus that fetches the log of a failed stage and goes on.
CheckCompileStatusNoPanic(stage) ==
    /\ pc = CheckPc(stage)
    /\ IF success
       THEN UNCHANGED info_log
       ELSE \E buf \in UninitLogs, text \in DriverLogs :
                info_log' = GetInfoLog(buf, InfoLogLen + 1, text)
    /\ Goto(AfterCompilePc(stage))
    /\ UNCHANGED <<winVars, glVars, vertex_shader, frag_shader, program_local, success,
                   meshVars, mainVars, histVars>>

\* main.rs:162-174  the status check of compile_shader_with_debug
CheckCompileStatus(stage) ==
    /\ pc = CheckPc(stage)
    /\ IF success
       THEN /\ Goto(AfterCompilePc(stage))
            /\ UNCHANGED info_log
       ELSE \E buf \in UninitLogs, text \in DriverLogs :
            /\ info_log' = GetInfoLog(buf, InfoLogLen + 1, text)
            /\ PanicWithLog("ShaderCompile", stage, info_log')
    /\ UNCHANGED <<winVars, glVars, vertex_shader, frag_shader, program_local, success,
                   meshVars, mainVars, histVars>>

\* main.rs:137  CreateProgram
CreateProgram ==
    /\ pc = "create_program"
    /\ LET name == NewName(ObjectNames)
       IN  /\ programs' = (name :> [attached |-> {}, linkStatus |-> FALSE]) @@ programs
           /\ program_local' = name
    /\ Goto("attach_shaders")
    /\ Called(<<"CreateProgram">>)
    /\ UNCHANGED <<winVars, viewport, shaders, vaos, buffers, bound, albedoLocation,
                   vertex_shader, frag_shader, success, info_log, meshVars, mainVars>>

\* main.rs:138-139  AttachShader twice
AttachShaders ==
    /\ pc = "attach_shaders"
    /\ programs' = [programs EXCEPT ![program_local].attached = {vertex_shader, frag_shader}]
    /\ shaders' = [n \in DOMAIN shaders |->
                     IF n \in {vertex_shader, frag_shader}
                     THEN [shaders[n] EXCEPT !.attached = TRUE]
                     ELSE shaders[n]]
    /\ Goto("link_program")
    /\ Called(<<"AttachShader">>)
    /\ UNCHANGED <<winVars, viewport, vaos, buffers, bound, albedoLocation,
                   buildVars, meshVars, mainVars>>

\* main.rs:140  LinkProgram; whether the stages link, and whether the linked
\* program has an active uniform "albedo", is the driver's answer.
LinkProgram ==
    /\ pc = "link_program"
    /\ \E ok \in BOOLEAN, loc \in UniformLocations :
        /\ programs' = [programs EXCEPT ![program_local].linkStatus = ok]
        /\ albedoLocation' = IF ok THEN loc ELSE NotFound
    /\ Goto("check_linking_errors")
    /\ Called(<<"LinkProgram">>)
    /\ UNCHANGED <<winVars, viewport, shaders, vaos, buffers, bound,
                   buildVars, meshVars, mainVars>>

\* CheckLinkingErrors that reads the status and goes on whatever it is.
CheckLinkingErrorsNoPanic ==
    /\ pc = "check_linking_errors"
    /\ success' = programs[program_local].linkStatus
    /\ Goto("delete_shader_VERTEX")
    /\ UNCHANGED <<winVars, glVars, vertex_shader, frag_shader, program_local, info_log,
                   meshVars, mainVars, histVars>>

\* main.rs:177-195  check_linking_errors
CheckLinkingErrors ==
    /\ pc = "check_linking_errors"
    /\ success' = programs[program_local].linkStatus
    /\ IF success'
       THEN /\ Goto("delete_shader_VERTEX")
            /\ UNCHANGED info_log
       ELSE \E buf \in UninitLogs, text \in DriverLogs :
            /\ info_log' = GetInfoLog(buf, InfoLogLen + 1, text)
            /\ PanicWithLog("ProgramLink", "PROGRAM", info_log')
    /\ UNCHANGED <<winVars, glVars, vertex_shader, frag_shader, program_local,
                   meshVars, mainVars, histVars>>

\* glDeleteShader: a shader attached to a program is only flagged for
\* deletion and lives on until it is detached; any other is freed.
DeleteShaderIn(objs, name) ==
    IF objs[name].attached
    THEN [objs EXCEPT ![name].deleteFlag = TRUE]
    ELSE [n \in DOMAIN objs \ {name} |-> objs[n]]

\* DeleteShader passing vertex_shader at both calls.
DeleteShaderVertexTwice(stage) ==
    /\ pc = (IF stage = "VERTEX" THEN "delete_shader_VERTEX" ELSE "delete_shader_FRAGMENT")
    /\ shaders' = IF vertex_shader \in DOMAIN shaders
                  THEN DeleteShaderIn(shaders, vertex_shader)
                  ELSE shaders
    /\ Goto(IF stage = "VERTEX" THEN "delete_shader_FRAGMENT" ELSE "return_program")
    /\ Called(<<"DeleteShader", "VERTEX">>)
    /\ UNCHANGED <<winVars, viewport, programs, vaos, buffers, bound, albedoLocation,
                   buildVars, meshVars, mainVars>>

\* main.rs:146, 147  DeleteShader
DeleteShader(stage) ==
    /\ pc = (IF stage = "VERTEX" THEN "delete_shader_VERTEX" ELSE "delete_shader_FRAGMENT")
    /\ shaders' = DeleteShaderIn(shaders, ShaderLocal(stage))
    /\ Goto(IF stage = "VERTEX" THEN "delete_shader_FRAGMENT" ELSE "return_program")
    /\ Called(<<"DeleteShader", stage>>)
    /\ UNCHANGED <<winVars, viewport, programs, vaos, buffers, bound, albedoLocation,
                   buildVars, meshVars, mainVars>>

\* main.rs:149, 20  compiler_shader returns its program to main
ReturnProgram ==
    /\ pc = "return_program"
    /\ shader_program' = program_local
    /\ Goto("gen_objects")
    /\ UNCHANGED <<winVars, glVars, buildVars, meshVars, vao, vertex_color_location, colorVars,
                   histVars>>

(***************************************************************************)
(* setup_vertex_data (main.rs:197-247).                                    *)
(***************************************************************************)
\* main.rs:198-202  the triangle, in tenths
Vertices == <<-5, -5, 0,   5, -5, 0,   0, 5, 0>>

\* main.rs:227-234  attribute 0: 3 floats, not normalised, stride 3 * 4
\* bytes, offset 0, read from the buffer bound to ARRAY_BUFFER at the call
Attrib0From(buffer) ==
    [buffer |-> buffer, size |-> 3, type |-> "FLOAT", normalized |-> FALSE,
     stride |-> 3 * 4, offset |-> 0]

NoAttrib == [buffer |-> 0, size |-> 4, type |-> "FLOAT", normalized |-> FALSE,
             stride |-> 0, offset |-> 0]

\* main.rs:207-213  GenVertexArrays and GenBuffers
GenObjects ==
    /\ pc = "gen_objects"
    /\ LET a == NewName(DOMAIN vaos)
           b == NewName(DOMAIN buffers)
       IN  /\ vaos' = (a :> [pointer |-> NoAttrib, enabled |-> FALSE]) @@ vaos
           /\ buffers' = (b :> [data |-> <<>>, usage |-> "none"]) @@ buffers
           /\ vao_local' = a
           /\ vbo_local' = b
    /\ Goto("setup_bind_vertex_array")
    /\ Called(<<"GenVertexArrays">>)
    /\ UNCHANGED <<winVars, viewport, shaders, programs, bound, albedoLocation,
                   buildVars, mainVars>>

\* main.rs:216  BindVertexArray(vao)
SetupBindVertexArray ==
    /\ pc = "setup_bind_vertex_array"
    /\ bound' = [bound EXCEPT !.vertexArray = vao_local]
    /\ Goto("setup_bind_buffer")
    /\ Called(<<"BindVertexArray", vao_local>>)
    /\ UNCHANGED <<winVars, viewport, shaders, programs, vaos, buffers, albedoLocation,
                   buildVars, meshVars, mainVars>>

\* main.rs:217  BindBuffer(ARRAY_BUFFER, vbo)
SetupBindBuffer ==
    /\ pc = "setup_bind_buffer"
    /\ bound' = [bound EXCEPT !.arrayBuffer = vbo_local]
    /\ Goto("buffer_data")
    /\ Called(<<"BindBuffer", vbo_local>>)
    /\ UNCHANGED <<winVars, viewport, shaders, programs, vaos, buffers, albedoLocation,
                   buildVars, meshVars, mainVars>>

\* BufferData followed at once by the unbinding of the buffer.
BufferDataThenUnbind ==
    /\ pc = "buffer_data"
    /\ buffers' = IF bound.arrayBuffer \in DOMAIN buffers
                  THEN [buffers EXCEPT ![bound.arrayBuffer] =
                            [data |-> Vertices, usage |-> "STATIC_DRAW"]]
                  ELSE buffers
    /\ bound' = [bound EXCEPT !.arrayBuffer = 0]
    /\ Goto("vertex_attrib_pointer")
    /\ Called(<<"BufferData">>)
    /\ UNCHANGED <<winVars, viewport, shaders, programs, vaos, albedoLocation,
                   buildVars, meshVars, mainVars>>

\* main.rs:219-224  BufferData(ARRAY_BUFFER, .., STATIC_DRAW) fills the buffer
\* bound to ARRAY_BUFFER; with none bound GL does nothing.
BufferData ==
    /\ pc = "buffer_data"
    /\ buffers' = IF bound.arrayBuffer \in DOMAIN buffers
                  THEN [buffers EXCEPT ![bound.arrayBuffer] =
                            [data |-> Vertices, usage |-> "STATIC_DRAW"]]
                  ELSE buffers
    /\ Goto("vertex_attrib_pointer")
    /\ Called(<<"BufferData">>)
    /\ UNCHANGED <<winVars, viewport, shaders, programs, vaos, bound, albedoLocation,
                   buildVars, meshVars, mainVars>>

\* main.rs:227-234  VertexAttribPointer(0, ..) writes into the bound vertex
\* array; with none bound GL does nothing.
VertexAttribPointer ==
    /\ pc = "vertex_attrib_pointer"
    /\ vaos' = IF bound.vertexArray \in DOMAIN vaos
               THEN [vaos EXCEPT ![bound.vertexArray].pointer = Attrib0From(bound.arrayBuffer)]
               ELSE vaos
    /\ Goto("enable_vertex_attrib_array")
    /\ Called(<<"VertexAttribPointer">>)
    /\ UNCHANGED <<winVars, viewport, shaders, programs, buffers, bound, albedoLocation,
                   buildVars, meshVars, mainVars>>

\* main.rs:236  EnableVertexAttribArray(0)
EnableVertexAttribArray ==
    /\ pc = "enable_vertex_attrib_array"
    /\ vaos' = IF bound.vertexArray \in DOMAIN vaos
               THEN [vaos EXCEPT ![bound.vertexArray].enabled = TRUE]
               ELSE vaos
    /\ Goto("setup_unbind_buffer")
    /\ Called(<<"EnableVertexAttribArray">>)
    /\ UNCHANGED <<winVars, viewport, shaders, programs, buffers, bound, albedoLocation,
                   buildVars, meshVars, mainVars>>

\* main.rs:239  BindBuffer(ARRAY_BUFFER, 0)
SetupUnbindBuffer ==
    /\ pc = "setup_unbind_buffer"
    /\ bound' = [bound EXCEPT !.arrayBuffer = 0]
    /\ Goto("setup_unbind_vertex_array")
    /\ Called(<<"BindBuffer", 0>>)
    /\ UNCHANGED <<winVars, viewport, shaders, programs, vaos, buffers, albedoLocation,
                   buildVars, meshVars, mainVars>>

\* main.rs:241  BindVertexArray(0)
SetupUnbindVertexArray ==
    /\ pc = "setup_unbind_vertex_array"
    /\ bound' = [bound EXCEPT !.vertexArray = 0]
    /\ Goto("return_vao")
    /\ Called(<<"BindVertexArray", 0>>)
    /\ UNCHANGED <<winVars, viewport, shaders, programs, vaos, buffers, albedoLocation,
                   buildVars, meshVars, mainVars>>

\* main.rs:246, 22-24  setup_vertex_data returns its vertex array to main,
\* which reads the clock and reaches the loop
ReturnVao ==
    /\ pc = "return_vao"
    /\ vao' = vao_local
    /\ Goto("loop_check")
    /\ UNCHANGED <<winVars, glVars, buildVars, meshVars, shader_program,
                   vertex_color_location, colorVars, histVars>>

(***************************************************************************)
(* The render loop (main.rs:27-67) and process_events (main.rs:109-121).   *)
(***************************************************************************)
\* HandleEvent with the Escape arm matching the key's release.
HandleEventOnRelease(st, event) ==
    IF event.type = "FramebufferSize"
    THEN [st EXCEPT !.viewport = <<0, 0, event.width, event.height>>]
    ELSE IF event.type = "Key" /\ event.key = "Escape" /\ event.action = "Release"
    THEN [st EXCEPT !.shouldClose = TRUE]
    ELSE st

\* HandleEvent with the Escape arm matching the press of any key.
HandleEventAnyKeyPress(st, event) ==
    IF event.type = "FramebufferSize"
    THEN [st EXCEPT !.viewport = <<0, 0, event.width, event.height>>]
    ELSE IF event.type = "Key" /\ event.action = "Press"
    THEN [st EXCEPT !.shouldClose = TRUE]
    ELSE st

\* main.rs:111-119  the match of process_events on one event
HandleEvent(st, event) ==
    IF event.type = "FramebufferSize"
    THEN [st EXCEPT !.viewport = <<0, 0, event.width, event.height>>]
    ELSE IF event.type = "Key" /\ event.key = "Escape" /\ event.action = "Press"
    THEN [st EXCEPT !.shouldClose = TRUE]
    ELSE st

\* Drain reading one event only (an `if let` in place of the `for`).
DrainFirstOnly(st, queue) ==
    IF queue = <<>> THEN st ELSE HandleEvent(st, Head(queue))

\* Drain reading the newest event first.
RECURSIVE DrainNewestFirst(_, _)
DrainNewestFirst(st, queue) ==
    IF queue = <<>> THEN st
    ELSE DrainNewestFirst(HandleEvent(st, queue[Len(queue)]), SubSeq(queue, 1, Len(queue) - 1))

\* main.rs:110  the for loop over flush_messages: every queued event, oldest
\* first
RECURSIVE Drain(_, _)
Drain(st, queue) ==
    IF queue = <<>> THEN st
    ELSE Drain(HandleEvent(st, Head(queue)), Tail(queue))

IsEscapePress(event) ==
    event.type = "Key" /\ event.key = "Escape" /\ event.action = "Press"

\* LoopCheck that leaves the loop only once the queue is empty as well.
LoopCheckUntilQueueEmpty ==
    /\ pc = "loop_check"
    /\ IF shouldClose /\ eventQueue = <<>>
       THEN /\ pc' = "done"
            /\ outcome' = "exit0"
            /\ UNCHANGED <<diag, iterOps>>
       ELSE /\ Goto("process_events")
            /\ iterOps' = <<>>
    /\ UNCHANGED <<winVars, glVars, buildVars, meshVars, mainVars, calls, lastResize,
                   escDrained, drawsAfterEsc, closeRequested, flushFailed>>

\* main.rs:27  while !window.should_close(); when the flag is set main
\* returns and the process ends with status 0.
LoopCheck ==
    /\ pc = "loop_check"
    /\ IF shouldClose
       THEN /\ pc' = "done"
            /\ outcome' = "exit0"
            /\ UNCHANGED <<diag, iterOps>>
       ELSE /\ Goto("process_events")
            /\ iterOps' = <<>>
    /\ UNCHANGED <<winVars, glVars, buildVars, meshVars, mainVars, calls, lastResize,
                   escDrained, drawsAfterEsc, closeRequested, flushFailed>>

\* main.rs:29, 109-121  process_events
ProcessEvents ==
    /\ pc = "process_events"
    /\ LET st == Drain([viewport |-> viewport, shouldClose |-> shouldClose], eventQueue)
       IN  /\ viewport' = st.viewport
           /\ shouldClose' = st.shouldClose
    /\ eventQueue' = <<>>
    /\ escDrained' = (escDrained \/ \E i \in 1..Len(eventQueue) : IsEscapePress(eventQueue[i]))
    /\ iterOps' = Append(iterOps, <<"process_events", eventQueue>>)
    /\ Goto("clear")
    /\ UNCHANGED <<glfw, shaders, programs, vaos, buffers, bound, albedoLocation, buildVars,
                   meshVars, mainVars, calls, lastResize, drawsAfterEsc, closeRequested,
                   flushFailed>>

\* ClearFrame that sets the clear colour and never clears.
ClearFrameColorOnly ==
    /\ pc = "clear"
    /\ iterOps' = Append(iterOps, <<"ClearColor">>)
    /\ Goto("get_uniform_location")
    /\ UNCHANGED <<winVars, glVars, buildVars, meshVars, mainVars, calls, lastResize,
                   escDrained, drawsAfterEsc, closeRequested, flushFailed>>

\* main.rs:33-34  ClearColor and Clear(COLOR_BUFFER_BIT)
ClearFrame ==
    /\ pc = "clear"
    /\ iterOps' = iterOps \o << <<"ClearColor">>, <<"Clear", "COLOR_BUFFER_BIT">> >>
    /\ Goto("get_uniform_location")
    /\ UNCHANGED <<winVars, glVars, buildVars, meshVars, mainVars, calls, lastResize,
                   escDrained, drawsAfterEsc, closeRequested, flushFailed>>

\* main.rs:37-42  the three colour values of this frame, from the time
\* read now, then GetUniformLocation(shader_program, "albedo")
GetUniformLocation ==
    /\ pc = "get_uniform_location"
    /\ \E time \in Times :
         /\ red_value' = (Cos(time) \div 2) + (One \div 2)
         /\ green_value' = (Sin(time) \div 2) + (One \div 2)
         /\ blue_value' = ((Cos(time) \div 2) + FRAC_PI_2) + (One \div 2)
    /\ vertex_color_location' =
           IF shader_program \in DOMAIN programs /\ programs[shader_program].linkStatus
           THEN albedoLocation
           ELSE NotFound
    /\ Did(<<"GetUniformLocation", shader_program>>)
    /\ Goto("use_program")
    /\ UNCHANGED <<winVars, glVars, buildVars, meshVars, shader_program, vao>>

\* main.rs:45  UseProgram(shader_program)
UseProgram ==
    /\ pc = "use_program"
    /\ bound' = [bound EXCEPT !.program = shader_program]
    /\ Did(<<"UseProgram", shader_program>>)
    /\ Goto("uniform4f")
    /\ UNCHANGED <<winVars, viewport, shaders, programs, vaos, buffers, albedoLocation,
                   buildVars, meshVars, mainVars>>

\* Uniform4f behind a check of the location that panics on "not found".
Uniform4fChecked ==
    /\ pc = "uniform4f"
    /\ IF vertex_color_location = NotFound
       THEN /\ Panic("UniformNotFound", "none", <<>>)
            /\ UNCHANGED histVars
       ELSE /\ Did(<<"Uniform4f", vertex_color_location>>)
            /\ Goto("bind_vertex_array")
    /\ red_value' = 0
    /\ green_value' = 0
    /\ blue_value' = 0
    /\ UNCHANGED <<winVars, glVars, buildVars, meshVars, shader_program, vao,
                   vertex_color_location>>

\* main.rs:47-53  the arguments of the Uniform4f call
Uniform4fArgs == <<vertex_color_location, red_value, green_value, blue_value, One>>

\* main.rs:47-53  Uniform4f(vertex_color_location, ..); GL ignores the call
\* for location -1, and the code does not look at the location.  The
\* three colour values are dead after this call, their last use, and go
\* back to their initial value.
Uniform4f ==
    /\ pc = "uniform4f"
    /\ Did(<<"Uniform4f", Uniform4fArgs[1]>>)
    /\ Goto("bind_vertex_array")
    /\ red_value' = 0
    /\ green_value' = 0
    /\ blue_value' = 0
    /\ UNCHANGED <<winVars, glVars, buildVars, meshVars, shader_program, vao,
                   vertex_color_location>>

\* BindVertexArray left out, the vertex array taken to be bound still.
BindVertexArraySkipped ==
    /\ pc = "bind_vertex_array"
    /\ Goto("draw_arrays")
    /\ UNCHANGED <<winVars, glVars, buildVars, meshVars, mainVars, histVars>>

\* main.rs:55  BindVertexArray(vao)
BindVertexArray ==
    /\ pc = "bind_vertex_array"
    /\ bound' = [bound EXCEPT !.vertexArray = vao]
    /\ Did(<<"BindVertexArray", vao>>)
    /\ Goto("draw_arrays")
    /\ UNCHANGED <<winVars, viewport, shaders, programs, vaos, buffers, albedoLocation,
                   buildVars, meshVars, mainVars>>

\* main.rs:56  DrawArrays(TRIANGLES, 0, 3)
DrawArrays ==
    /\ pc = "draw_arrays"
    /\ iterOps' = Append(iterOps, <<"DrawArrays", "TRIANGLES", 0, 3>>)
    /\ drawsAfterEsc' = IF escDrained
                        THEN Min(drawsAfterEsc + 1, MaxDrawsCounted)
                        ELSE drawsAfterEsc
    /\ Goto("swap_buffers")
    /\ UNCHANGED <<winVars, glVars, buildVars, meshVars, mainVars, calls, lastResize,
                   escDrained, closeRequested, flushFailed>>

\* main.rs:61  window.swap_buffers()
SwapBuffers ==
    /\ pc = "swap_buffers"
    /\ Did(<<"swap_buffers">>)
    /\ Goto("poll_events")
    /\ UNCHANGED <<winVars, glVars, buildVars, meshVars, mainVars>>

\* The last framebuffer-size event of a batch, or `before` when it has none.
RECURSIVE LastResizeOf(_, _)
LastResizeOf(before, batch) ==
    IF batch = <<>> THEN before
    ELSE LET e == Head(batch)
         IN  LastResizeOf(IF e.type = "FramebufferSize" THEN <<e.width, e.height>> ELSE before,
                          Tail(batch))

\* The history of an iteration keeps what its drain read only until its poll.
WithoutQueues(ops) ==
    [i \in 1..Len(ops) |-> IF ops[i][1] = "process_events" THEN <<"process_events">>
                                                              ELSE ops[i]]

\* main.rs:62  glfw.poll_events(): the library queues the events that
\* happened, in order, and sets the should-close flag when the user asked to
\* close the window.
PollEvents ==
    /\ pc = "poll_events"
    /\ \E batch \in SeqsUpTo(Events, MaxBatch), close \in BOOLEAN :
        /\ eventQueue' = eventQueue \o batch
        /\ shouldClose' = (shouldClose \/ close)
        /\ closeRequested' = (closeRequested \/ close)
        /\ lastResize' = LastResizeOf(lastResize, batch)
    /\ iterOps' = Append(WithoutQueues(iterOps), <<"poll_events">>)
    /\ Goto("report_fps")
    /\ UNCHANGED <<glfw, glVars, buildVars, meshVars, mainVars, calls, escDrained,
                   drawsAfterEsc, flushFailed>>

\* main.rs:64-66  print! of the frame rate and io::stdout().flush().unwrap():
\* a flush that fails panics.
ReportFps ==
    /\ pc = "report_fps"
    /\ \E ok \in BOOLEAN :
        IF ok
        THEN /\ Goto("loop_check")
             /\ UNCHANGED flushFailed
        ELSE /\ Panic("StdoutFlush", "none", <<>>)
             /\ flushFailed' = TRUE
    /\ UNCHANGED <<winVars, glVars, buildVars, meshVars, mainVars, calls, iterOps,
                   lastResize, escDrained, drawsAfterEsc, closeRequested>>

Next ==
    \/ GlfwInit
    \/ CreateWindow
    \/ MakeCurrent
    \/ SetPolling
    \/ LoadGl
    \/ \E stage \in Stages : CreateShader(stage)
    \/ \E stage \in Stages : CompileShader(stage)
    \/ \E stage \in Stages : CheckCompileStatus(stage)
    \/ CreateProgram
    \/ AttachShaders
    \/ LinkProgram
    \/ CheckLinkingErrors
    \/ \E stage \in Stages : DeleteShader(stage)
    \/ ReturnProgram
    \/ GenObjects
    \/ SetupBindVertexArray
    \/ SetupBindBuffer
    \/ BufferData
    \/ VertexAttribPointer
    \/ EnableVertexAttribArray
    \/ SetupUnbindBuffer
    \/ SetupUnbindVertexArray
    \/ ReturnVao
    \/ LoopCheck
    \/ ProcessEvents
    \/ ClearFrame
    \/ GetUniformLocation
    \/ UseProgram
    \/ Uniform4f
    \/ BindVertexArray
    \/ DrawArrays
    \/ SwapBuffers
    \/ PollEvents
    \/ ReportFps

Spec == Init /\ [][Next]_vars
(***************************************************************************)
(* Vocabulary of the properties.                                           *)
(***************************************************************************)
\* Positions inside one iteration of the loop body, in program order.
BodyPcs == {"process_events", "clear", "get_uniform_location", "use_program", "uniform4f",
            "bind_vertex_array", "draw_arrays", "swap_buffers", "poll_events", "report_fps"}

\* Positions of the loop: its condition and its body.
LoopPcs == BodyPcs \cup {"loop_check"}

\* The loop has been reached (main.rs:22 assigns vao just before it).
LoopReached == vao # 0

\* The body positions from which the iteration's DrawArrays is still ahead.
BeforeDrawPcs == {"process_events", "clear", "get_uniform_location", "use_program",
                  "uniform4f", "bind_vertex_array", "draw_arrays"}

WasCalled(name) == \E i \in 1..Len(calls) : calls[i][1] = name

WasCalledWith(name, arg) ==
    \E i \in 1..Len(calls) : calls[i][1] = name /\ calls[i][2] = arg

TimesCalled(name) == Cardinality({i \in 1..Len(calls) : calls[i][1] = name})

TimesCalledWith(name, arg) ==
    Cardinality({i \in 1..Len(calls) : calls[i][1] = name /\ calls[i][2] = arg})

(***************************************************************************)
(* C1.  Escape and the draw calls after it.                                *)
(***************************************************************************)
\* C1 (as stated): once a drain has handled an Escape press, the should-close
\* flag is set and no DrawArrays call is issued any more.
C1_NoDrawAfterEscapeDrain ==
    escDrained => (shouldClose /\ drawsAfterEsc = 0)

\* C1 (amended): once a drain has handled an Escape press, the should-close
\* flag is set and stays set; the iteration that drained it still runs to
\* its end and issues its one DrawArrays call, and no iteration follows it,
\* so exactly one DrawArrays call is issued after the drain and none in a
\* later iteration.
C1_OneDrawAfterEscapeDrain ==
    escDrained =>
        /\ shouldClose
        /\ drawsAfterEsc = (IF pc \in BeforeDrawPcs THEN 0 ELSE 1)

\* An Escape press was drained, the loop has ended, and one draw followed.
C1_Witness ==
    escDrained /\ pc = "done" /\ drawsAfterEsc = 1

(***************************************************************************)
(* C2.  The viewport at a draw is that of the last resize delivered.       *)
(***************************************************************************)
\* C2: at every DrawArrays call issued after some framebuffer-resize event
\* was delivered, the viewport is (0, 0, W, H) for the last such event
\* delivered before the draw.
C2_ViewportOfLastResizeAtDraw ==
    (pc \in {"draw_arrays", "swap_buffers"} /\ lastResize # <<>>)
        => viewport = <<0, 0, lastResize[1], lastResize[2]>>

\* A draw has just been issued after a resize away from the initial size.
C2_Witness ==
    /\ pc = "swap_buffers"
    /\ lastResize = <<640, 480>>
    /\ viewport = <<0, 0, 640, 480>>

(***************************************************************************)
(* C3.  What a failed compilation reports.                                 *)
(***************************************************************************)
\* The stage was compiled and its compile status is not TRUE.
CompileFailed(stage) ==
    /\ WasCalledWith("CompileShader", stage)
    /\ \E n \in DOMAIN shaders : shaders[n].type = stage /\ ~shaders[n].compileStatus

\* C3: when a stage fails to compile, whatever the driver writes into the
\* log buffer, the run ends with the compile-error diagnostic that names
\* the stage and carries a non-empty log, and with no other failure.
C3_CompileFailureNamesStage ==
    \A stage \in Stages :
        (CompileFailed(stage) /\ pc = "aborted")
            => /\ diag.kind = "ShaderCompile"
               /\ diag.stage = stage
               /\ diag.log # <<>>

(***************************************************************************)
(* C4.  One program and one vertex array, both ready, while the loop runs. *)
(***************************************************************************)
\* Both stages compiled, the program linked and the mesh is uploaded.
SetupComplete ==
    /\ \A stage \in Stages :
         \E n \in DOMAIN shaders : shaders[n].type = stage /\ shaders[n].compileStatus
    /\ shader_program \in DOMAIN programs
    /\ programs[shader_program].linkStatus
    /\ TimesCalled("LinkProgram") = 1
    /\ vao \in DOMAIN vaos
    /\ vaos[vao].enabled
    /\ vaos[vao].pointer.buffer \in DOMAIN buffers
    /\ vaos[vao].pointer = Attrib0From(vaos[vao].pointer.buffer)
    /\ buffers[vaos[vao].pointer.buffer].data = Vertices

\* C4: whenever the thread is in the loop, exactly one program and exactly
\* one vertex array exist, the program is linked and the vertex array set
\* up, both stages compiled; and no step taken in the loop creates a program
\* or a vertex array.
C4_OneProgramOneVaoInLoop ==
    /\ [](pc \in LoopPcs =>
            (Cardinality(DOMAIN programs) = 1 /\ Cardinality(DOMAIN vaos) = 1
             /\ SetupComplete))
    /\ [][(pc \in LoopPcs) =>
            (DOMAIN programs' = DOMAIN programs /\ DOMAIN vaos' = DOMAIN vaos)]_vars

\* The loop is running an iteration with its program and vertex array.
C4_Witness ==
    /\ pc = "draw_arrays"
    /\ DOMAIN programs = {shader_program}
    /\ DOMAIN vaos = {vao}
    /\ SetupComplete

(***************************************************************************)
(* C5.  The steps of one iteration.                                        *)
(***************************************************************************)
\* The steps the claim names, in its order.
IterationSteps ==
    <<"process_events", "Clear", "UseProgram", "Uniform4f", "BindVertexArray",
      "DrawArrays", "swap_buffers", "poll_events">>

IsNamedStep(op) == \E i \in 1..Len(IterationSteps) : IterationSteps[i] = op[1]

\* The named steps the current iteration has made, in the order made.
RECURSIVE StepNames(_)
StepNames(ops) ==
    IF ops = <<>> THEN <<>>
    ELSE IF IsNamedStep(Head(ops))
         THEN <<Head(ops)[1]>> \o StepNames(Tail(ops))
         ELSE StepNames(Tail(ops))

\* How many of the named steps are behind the thread at each position.
StepsBehind(p) ==
    CASE p = "process_events" -> 0
      [] p = "clear" -> 1
      [] p \in {"get_uniform_location", "use_program"} -> 2
      [] p = "uniform4f" -> 3
      [] p = "bind_vertex_array" -> 4
      [] p = "draw_arrays" -> 5
      [] p = "swap_buffers" -> 6
      [] p = "poll_events" -> 7
      [] OTHER -> 8

\* C5: at every position of an iteration the named steps made so far are
\* exactly the first ones of the list drain, clear, bind program, upload
\* uniform, bind vertex array, draw, swap, poll, each once; an iteration that
\* has ended made all eight; and every draw is DrawArrays(TRIANGLES, 0, 3).
C5_IterationStepsInOrder ==
    /\ pc \in BodyPcs =>
         StepNames(iterOps) = SubSeq(IterationSteps, 1, StepsBehind(pc))
    /\ (LoopReached /\ pc \notin BodyPcs /\ iterOps # <<>>) =>
         StepNames(iterOps) = IterationSteps
    /\ pc = "done" => StepNames(iterOps) = IterationSteps
    /\ \A i \in 1..Len(iterOps) :
         iterOps[i][1] = "DrawArrays" => iterOps[i] = <<"DrawArrays", "TRIANGLES", 0, 3>>

\* An iteration has made all its steps and the next one is about to start.
C5_Witness ==
    /\ pc = "loop_check"
    /\ ~shouldClose
    /\ StepNames(iterOps) = IterationSteps

(***************************************************************************)
(* C6.  How the loop ends.                                                 *)
(***************************************************************************)
\* C6: once the loop is reached the thread is either in it or has left it
\* through the loop condition, with the should-close flag set by a close
\* request or a drained Escape press; the flag, once set, stays set; and
\* after the exit nothing more is done.
C6_LoopLeftOnlyByClose ==
    /\ LoopReached =>
         \/ pc \in LoopPcs
         \/ pc = "done" /\ shouldClose /\ (closeRequested \/ escDrained)
    /\ (closeRequested \/ escDrained) => shouldClose
    /\ pc = "done" => ~ENABLED Next

(***************************************************************************)
(* C7.  Compile and link failures end the run where they are found.        *)
(***************************************************************************)
LinkFailed ==
    /\ WasCalled("LinkProgram")
    /\ ~programs[program_local].linkStatus

\* C7: no stage is compiled and no program linked twice; after a failed
\* vertex compilation the thread is at the status check or has aborted and
\* no fragment shader exists; after any failed compilation no program
\* exists; after a failed compilation or link the thread is at that status
\* check or has aborted, and no buffer or vertex array exists, the loop was
\* not reached and no iteration step was made.
C7_BuildFailureIsFatal ==
    /\ \A stage \in Stages : TimesCalledWith("CompileShader", stage) <= 1
    /\ TimesCalled("LinkProgram") <= 1
    /\ CompileFailed("VERTEX") =>
         /\ pc \in {CheckPc("VERTEX"), "aborted"}
         /\ ~WasCalledWith("CreateShader", "FRAGMENT")
         /\ ~WasCalledWith("CompileShader", "FRAGMENT")
    /\ \A stage \in Stages : CompileFailed(stage) =>
         /\ pc \in {CheckPc(stage), "aborted"}
         /\ DOMAIN programs = {}
         /\ ~WasCalled("CreateProgram")
         /\ ~WasCalled("LinkProgram")
    /\ LinkFailed => pc \in {"check_linking_errors", "aborted"}
    /\ (LinkFailed \/ \E stage \in Stages : CompileFailed(stage)) =>
         /\ pc = "aborted" => outcome = "abort"
         /\ DOMAIN vaos = {} /\ DOMAIN buffers = {}
         /\ ~LoopReached
         /\ iterOps = <<>>
         /\ drawsAfterEsc = 0

\* The run has aborted on a failed fragment compilation.
C7_Witness ==
    pc = "aborted" /\ CompileFailed("FRAGMENT") /\ ~CompileFailed("VERTEX")

(***************************************************************************)
(* C8.  A window that cannot be created.                                   *)
(***************************************************************************)
WindowFailed ==
    \/ WasCalled("glfw::init") /\ ~glfw.initialized
    \/ WasCalled("create_window") /\ ~glfw.window

\* C8: the library is initialised and the window created at most once each;
\* when either fails the process has aborted with a diagnostic and no
\* context was made current, GL was not loaded, no shader, program, buffer
\* or vertex array exists and the loop was not reached.
C8_WindowFailureIsFatal ==
    /\ TimesCalled("glfw::init") <= 1
    /\ TimesCalled("create_window") <= 1
    /\ WindowFailed =>
         /\ pc = "aborted" /\ outcome = "abort"
         /\ diag.kind \in {"GlfwInit", "CreateWindow"}
         /\ ~glfw.contextCurrent /\ ~glfw.glLoaded
         /\ ~WasCalled("make_current") /\ ~WasCalled("gl::load_with")
         /\ DOMAIN shaders = {} /\ DOMAIN programs = {}
         /\ DOMAIN buffers = {} /\ DOMAIN vaos = {}
         /\ ~LoopReached /\ iterOps = <<>>

\* The library came up and the window could not be created.
C8_Witness ==
    glfw.initialized /\ WasCalled("create_window") /\ ~glfw.window /\ pc = "aborted"

(***************************************************************************)
(* C9.  How the process ends.                                              *)
(***************************************************************************)
SetupFailure ==
    \/ WindowFailed
    \/ \E stage \in Stages : CompileFailed(stage)
    \/ LinkFailed

\* C9: the process ends normally exactly when the loop was reached and left
\* with the should-close flag set, and aborts exactly when the window, a
\* compilation or the link failed.
C9_ExitOutcome ==
    /\ outcome = "exit0" <=> (LoopReached /\ pc = "done" /\ shouldClose)
    /\ outcome = "abort" <=> (pc = "aborted" /\ SetupFailure)
    /\ outcome = "exit0" => LoopReached

(***************************************************************************)
(* C10.  A uniform that is not found.                                      *)
(***************************************************************************)
\* The current iteration looked "albedo" up and got "not found".
LookupMissed ==
    /\ vertex_color_location = NotFound
    /\ \E i \in 1..Len(iterOps) : iterOps[i][1] = "GetUniformLocation"

\* The steps an iteration makes after the lookup.
StepsAfterLookup ==
    <<"UseProgram", "Uniform4f", "BindVertexArray", "DrawArrays", "swap_buffers", "poll_events">>

\* What the current iteration did after its lookup.
OpsAfterLookup ==
    LET at == CHOOSE i \in 1..Len(iterOps) : iterOps[i][1] = "GetUniformLocation"
    IN  StepNames(SubSeq(iterOps, at + 1, Len(iterOps)))

\* C10: in an iteration whose lookup returned "not found" the steps after
\* the lookup are bind program, upload to location -1, bind vertex array,
\* draw, swap, poll, as far as the thread has come, none left out and
\* nothing aborting before the poll; and the should-close flag is set only
\* by a close request or a drained Escape press.
C10_NotFoundChangesNothing ==
    LookupMissed =>
        /\ OpsAfterLookup = SubSeq(StepsAfterLookup, 1, StepsBehind(pc) - 2)
        /\ \A i \in 1..Len(iterOps) :
             iterOps[i][1] = "Uniform4f" => iterOps[i] = <<"Uniform4f", NotFound>>
        /\ shouldClose => (closeRequested \/ escDrained)

\* An iteration drew and polled with the uniform not found and goes on.
C10_Witness ==
    LookupMissed /\ pc = "loop_check" /\ ~shouldClose /\ OpsAfterLookup = StepsAfterLookup

(***************************************************************************)
(* C11.  One full drain per iteration, oldest event first.                 *)
(***************************************************************************)
\* Body positions between the drain and the poll of one iteration.
DrainedPcs == {"clear", "get_uniform_location", "use_program", "uniform4f",
               "bind_vertex_array", "draw_arrays", "swap_buffers", "poll_events"}

\* The queues the drains of the current iteration read.
DrainsOfIteration ==
    SelectSeq(iterOps, LAMBDA op : op[1] = "process_events")

IsResize(event) == event.type = "FramebufferSize"

\* The framebuffer-size events of a queue, in arrival order.
ResizesOf(queue) == SelectSeq(queue, IsResize)

\* C11: between the drain and the poll of an iteration the queue is empty
\* and the iteration has drained exactly once; every event of the drained
\* queue was handled, oldest first: if it held resize events the viewport is
\* that of the last of them in arrival order, and if it held an Escape press
\* the should-close flag is set.
C11_DrainIsCompleteAndFifo ==
    pc \in DrainedPcs =>
        /\ eventQueue = <<>>
        /\ Len(DrainsOfIteration) = 1
        /\ LET queue == DrainsOfIteration[1][2]
               resizes == ResizesOf(queue)
           IN  /\ resizes # <<>> =>
                     viewport = <<0, 0, resizes[Len(resizes)].width,
                                  resizes[Len(resizes)].height>>
               /\ (\E i \in 1..Len(queue) : IsEscapePress(queue[i])) => shouldClose

\* A drain has read two resize events of different sizes and the viewport
\* is that of the second.
C11_Witness ==
    /\ pc = "clear"
    /\ eventQueue = <<>>
    /\ Len(DrainsOfIteration) = 1
    /\ LET resizes == ResizesOf(DrainsOfIteration[1][2])
       IN  /\ Len(resizes) = 2
           /\ resizes[1].width # resizes[2].width
           /\ viewport = <<0, 0, resizes[2].width, resizes[2].height>>

(***************************************************************************)
(* C12.  What the dispatch of an event changes.                            *)
(***************************************************************************)
\* The event the claim calls an Escape key event with action Press.
IsCancelPress(event) ==
    event.type = "Key" /\ event.key = "Escape" /\ event.action = "Press"

\* C12: a drain changes no GL object, no binding and neither handle of
\* main; it changes the viewport only if the queue holds a resize event and
\* the should-close flag only if the queue holds an Escape press; and a
\* drain of one event sets the viewport to (0, 0, W, H) and nothing else for
\* a resize, sets the flag and nothing else for an Escape press, and changes
\* nothing for any other event.
C12_DispatchChangesOnlyWhatItNames ==
    [][(pc = "process_events") =>
        (/\ <<shaders', programs', vaos', buffers', bound'>>
                = <<shaders, programs, vaos, buffers, bound>>
         /\ <<shader_program', vao'>> = <<shader_program, vao>>
         /\ (\A i \in 1..Len(eventQueue) : ~IsResize(eventQueue[i])) => viewport' = viewport
         /\ (\A i \in 1..Len(eventQueue) : ~IsCancelPress(eventQueue[i]))
                => shouldClose' = shouldClose
         /\ Len(eventQueue) = 1 =>
              LET event == eventQueue[1]
              IN  IF IsResize(event)
                  THEN /\ viewport' = <<0, 0, event.width, event.height>>
                       /\ shouldClose' = shouldClose
                  ELSE IF IsCancelPress(event)
                  THEN shouldClose' /\ viewport' = viewport
                  ELSE viewport' = viewport /\ shouldClose' = shouldClose)]_vars

\* A drain has read one event, the release of Escape, and the flag is still
\* not set.
C12_Witness ==
    /\ pc = "clear"
    /\ Len(DrainsOfIteration) = 1
    /\ DrainsOfIteration[1][2] = <<[type |-> "Key", key |-> "Escape", action |-> "Release"]>>
    /\ ~shouldClose
    /\ ~escDrained

(***************************************************************************)
(* C13.  What is bound when the uniform is uploaded and when drawing.      *)
(***************************************************************************)
\* The current iteration has made the call `name` with first argument arg.
DidWith(name, arg) ==
    \E i \in 1..Len(iterOps) : iterOps[i][1] = name /\ iterOps[i][2] = arg

\* The current program is the linked program main holds, bound by a
\* UseProgram call of this iteration.
ProgramBoundByIteration ==
    /\ shader_program \in DOMAIN programs
    /\ programs[shader_program].linkStatus
    /\ bound.program = shader_program
    /\ DidWith("UseProgram", shader_program)

\* C13: when Uniform4f is about to be called the current program is the
\* linked program built at startup, bound by a UseProgram of the same
\* iteration; when DrawArrays is about to be called that holds too and the
\* current vertex array is the one the mesh upload returned, bound by a
\* BindVertexArray of the same iteration.
C13_BoundBeforeUse ==
    /\ pc = "uniform4f" => ProgramBoundByIteration
    /\ pc = "draw_arrays" =>
         /\ ProgramBoundByIteration
         /\ vao \in DOMAIN vaos
         /\ vao = vao_local
         /\ bound.vertexArray = vao
         /\ DidWith("BindVertexArray", vao)

\* The first frame is about to be drawn with both bindings made by it.
C13_Witness ==
    /\ pc = "draw_arrays"
    /\ ProgramBoundByIteration
    /\ bound.vertexArray = vao
    /\ DidWith("BindVertexArray", vao)

(***************************************************************************)
(* C14.  The lifetime of the two shader objects.                           *)
(***************************************************************************)
\* Positions of compiler_shader from the link to the end of its check.
LinkPcs == {"link_program", "check_linking_errors", "delete_shader_VERTEX"}

\* Positions after compiler_shader has made both DeleteShader calls.
AfterDeletePcs ==
    LoopPcs \cup {"return_program", "gen_objects", "setup_bind_vertex_array",
                  "setup_bind_buffer", "buffer_data", "vertex_attrib_pointer",
                  "enable_vertex_attrib_array", "setup_unbind_buffer",
                  "setup_unbind_vertex_array", "return_vao", "done"}

\* Both shader objects exist, attached to the program, DeleteShader called
\* on neither.
BothShadersAttachedUndeleted ==
    /\ DOMAIN shaders = {vertex_shader, frag_shader}
    /\ programs[program_local].attached = {vertex_shader, frag_shader}
    /\ \A n \in DOMAIN shaders : shaders[n].attached /\ ~shaders[n].deleteFlag
    /\ ~WasCalled("DeleteShader")

\* C14 (as stated): from the link to the end of its status check both
\* shader objects are alive, attached and not deleted; once both
\* DeleteShader calls are made, and so in every state of the loop, no
\* shader object is alive.
C14_NoShaderAliveAfterDelete ==
    /\ pc \in LinkPcs => BothShadersAttachedUndeleted
    /\ pc \in AfterDeletePcs =>
         /\ TimesCalledWith("DeleteShader", "VERTEX") = 1
         /\ TimesCalledWith("DeleteShader", "FRAGMENT") = 1
         /\ DOMAIN shaders = {}

\* C14 (amended): from the link to the end of its status check both shader
\* objects are alive, attached and not deleted; DeleteShader is called once
\* on each after the check and before the program is returned; as both are
\* still attached to the program, the calls only flag them for deletion, and
\* in every state of the loop both objects still exist, attached to the
\* program and flagged for deletion.
C14_ShadersFlaggedAfterDelete ==
    /\ pc \in LinkPcs => BothShadersAttachedUndeleted
    /\ pc \in AfterDeletePcs =>
         /\ TimesCalledWith("DeleteShader", "VERTEX") = 1
         /\ TimesCalledWith("DeleteShader", "FRAGMENT") = 1
         /\ DOMAIN shaders = {vertex_shader, frag_shader}
         /\ vertex_shader # frag_shader
         /\ programs[program_local].attached = {vertex_shader, frag_shader}
         /\ \A n \in DOMAIN shaders : shaders[n].attached /\ shaders[n].deleteFlag

\* A frame is being drawn while both shader objects exist, flagged.
C14_Witness ==
    /\ pc = "draw_arrays"
    /\ DOMAIN shaders = {vertex_shader, frag_shader}
    /\ \A n \in DOMAIN shaders : shaders[n].attached /\ shaders[n].deleteFlag

(***************************************************************************)
(* C15.  The bindings during the mesh upload.                              *)
(***************************************************************************)
\* Both objects of the upload exist and are the current vertex array and
\* array buffer.
BothBoundForUpload ==
    /\ vao_local \in DOMAIN vaos /\ vbo_local \in DOMAIN buffers
    /\ bound.vertexArray = vao_local
    /\ bound.arrayBuffer = vbo_local

\* Attribute 0 of the upload's vertex array reads the upload's buffer, which
\* holds the triangle.
Attrib0ReadsUploadedBuffer ==
    /\ vaos[vao_local].pointer = Attrib0From(vbo_local)
    /\ buffers[vbo_local].data = Vertices
    /\ buffers[vbo_local].usage = "STATIC_DRAW"

\* C15: the vertex array is bound while no buffer is bound yet; both are
\* bound when the data is copied, when attribute 0 is declared and when it
\* is enabled; the buffer is unbound while the vertex array is still bound;
\* and when the upload returns both bindings are 0 and attribute 0 of the
\* returned vertex array is enabled and reads the uploaded buffer.
C15_UploadBindings ==
    /\ pc = "setup_bind_buffer" =>
         bound.vertexArray = vao_local /\ vao_local # 0 /\ bound.arrayBuffer = 0
    /\ pc \in {"buffer_data", "vertex_attrib_pointer", "enable_vertex_attrib_array"} =>
         BothBoundForUpload
    /\ pc \in {"enable_vertex_attrib_array", "setup_unbind_buffer"} =>
         Attrib0ReadsUploadedBuffer
    /\ pc = "setup_unbind_buffer" => BothBoundForUpload /\ vaos[vao_local].enabled
    /\ pc = "setup_unbind_vertex_array" =>
         bound.arrayBuffer = 0 /\ bound.vertexArray = vao_local
    /\ pc = "return_vao" =>
         /\ bound.arrayBuffer = 0 /\ bound.vertexArray = 0
         /\ vaos[vao_local].enabled
         /\ Attrib0ReadsUploadedBuffer
    /\ (pc = "loop_check" /\ iterOps = <<>>) =>
         /\ vao = vao_local
         /\ bound.arrayBuffer = 0 /\ bound.vertexArray = 0
         /\ vaos[vao].enabled
         /\ Attrib0ReadsUploadedBuffer

\* The upload has returned its vertex array to main with both bindings
\* reset.
C15_Witness ==
    /\ pc = "loop_check" /\ iterOps = <<>>
    /\ vao # 0 /\ vao = vao_local
    /\ bound.arrayBuffer = 0 /\ bound.vertexArray = 0
    /\ vaos[vao].enabled
    /\ vaos[vao].pointer.buffer = vbo_local

(***************************************************************************)
(* C16.  A close request reported by the poll.                             *)
(***************************************************************************)
\* C16: once a poll has reported a close request the thread is at the end
\* of that iteration, at the loop condition, or out of the loop, and the
\* poll is the last step the loop made; from then on no step reads the
\* queue, changes the viewport or a binding, or adds a call to the
\* iteration, so the events the queue holds stay unhandled; and the loop
\* condition, when reached, ends the loop.
C16_CloseRequestEndsLoopAtNextCheck ==
    /\ [](closeRequested =>
            (/\ pc \in {"report_fps", "loop_check", "done", "aborted"}
             /\ shouldClose
             /\ iterOps # <<>>
             /\ iterOps[Len(iterOps)] = <<"poll_events">>))
    /\ [][closeRequested =>
            (/\ eventQueue' = eventQueue
             /\ viewport' = viewport
             /\ bound' = bound
             /\ iterOps' = iterOps
             /\ escDrained' = escDrained
             /\ drawsAfterEsc' = drawsAfterEsc
             /\ pc = "loop_check" => pc' = "done")]_vars

\* The loop has ended on a close request while the queue still holds an
\* Escape press and a resize to a size the viewport never took.
C16_Witness ==
    /\ pc = "done"
    /\ closeRequested
    /\ ~escDrained
    /\ \E i \in 1..Len(eventQueue) : IsCancelPress(eventQueue[i])
    /\ \E i \in 1..Len(eventQueue) :
         /\ IsResize(eventQueue[i])
         /\ viewport # <<0, 0, eventQueue[i].width, eventQueue[i].height>>

(***************************************************************************)
(* C17.  The colour uploaded each frame.                                   *)
(***************************************************************************)
\* C17: when Uniform4f is about to be called, each of the red, green, blue
\* and alpha arguments lies between 0 and 1, and alpha is 1.
C17_ColorComponentsInUnitRange ==
    pc = "uniform4f" =>
        /\ \A i \in 2..5 : Uniform4fArgs[i] \in 0..One
        /\ Uniform4fArgs[5] = One

=============================================================================
